---- MODULE Spec2Model ----
(***************************************************************************)
(* EventProcessor (src/.../models/index.ts, lines 564-981): a fleet of     *)
(* processors sharing one checkpoint store.  Every action is one           *)
(* continuation of the JavaScript code: it starts where an awaited call    *)
(* returns (or where the user calls start() or stop()) and runs to the     *)
(* next await.  A pc field names the call a task is suspended in.          *)
(*                                                                         *)
(* Etags are opaque tokens compared only for equality, and                 *)
(* lastModifiedTimeInMs is read only through "now - lastModified >         *)
(* inactiveTimeLimit": the row in the store carries the etag Current, a    *)
(* copy of an earlier version of the row that a task still holds carries   *)
(* Outdated, and a row carries whether its last modification is further in *)
(* the past than the inactive time limit.                                  *)
(***************************************************************************)
EXTENDS Integers, FiniteSets, Sequences, TLC

VARIABLES
    store,            \* partitionId -> ownership row of the checkpoint store
    target,           \* _processingTarget: a partition id, or Balancer
    hasHandler,       \* whether _subscriptionEventHandlers.processError exists
    startPosition,    \* _processorOptions.startPosition
    checkpoints,      \* partitionId -> offset of the checkpoint in the store
    isRunning,        \* _isRunning
    abortController,  \* _abortController: the run that created it, 0 = undefined
    aborted,          \* the runs whose AbortController has been aborted
    loopTask,         \* _loopTask: the run whose loop it is, 0 = undefined
    loops,            \* processor -> run -> the loop task of that run
    pumps,            \* Pump Manager: the partitions with a live pump
    stop,             \* processor -> the stop() call in progress / last finished
    startIgnored,     \* the processor whose start() the last step ignored, or NoProc
    restarted         \* the processor the last step started again after a stop()
                      \* call of it had ended, or NoProc

vars == <<store, target, hasHandler, startPosition, checkpoints, isRunning, abortController, aborted,
          loopTask, loops, pumps, stop, startIgnored, restarted>>

----
\* Bound of the model: the calls of start() that take effect, in the whole fleet.
MaxStarts == 2

Procs == {"A", "B"}       \* owner ids (options.ownerId)
Partitions == {1, 2}      \* partition ids of the event hub, in lexicographic order
Runs == 1..MaxStarts
Balancer == 0             \* _processingTarget is a PartitionLoadBalancer
NoPartition == 0          \* no partition
NoProc == ""              \* no processor
Abandoned == ""           \* ownerId of an abandoned row
NoEtag == "none"          \* etag undefined
Current == "current"      \* the etag of the row as it is in the store
Outdated == "outdated"    \* the etag of an earlier version of the row

Undefined == "undefined"  \* a property that is not set

\* An EventPosition: its offset, sequenceNumber and enqueuedOn, set or not.
NoPosition == [offset |-> Undefined, sequenceNumber |-> Undefined,
               enqueuedOn |-> Undefined]
latestEventPosition == [NoPosition EXCEPT !.offset = "@latest"]

\* A value that is an EventPosition, or null.
Null == [null |-> TRUE, position |-> NoPosition]
Value(pos) == [null |-> FALSE, position |-> pos]

\* A value of the option startPosition: null; or an object with the properties
\* of an EventPosition that are set, and the entries keyed by partition id.
NoEntries == [q \in Partitions |-> Null]
NullStart == [null |-> TRUE, position |-> NoPosition, entries |-> NoEntries]
Single(pos) == [null |-> FALSE, position |-> pos, entries |-> NoEntries]
PerPartition(map) == [null |-> FALSE, position |-> NoPosition, entries |-> map]

\* No checkpoint in the store.
NoCheckpoints == [q \in Partitions |-> Undefined]

\* A row that is not in the store.
NoRow == [owner |-> Abandoned, etag |-> NoEtag, stale |-> FALSE]
NoSnapshot == [q \in Partitions |-> NoRow]

\* A loop task: the call it is suspended in (pc); the rows it listed (snap); the
\* partition and etag of its claim request, then the partition of the pump it
\* starts (part, etag); whether a return is pending behind the finally block
\* (ret); the name of the error this iteration caught (err); whether the
\* partition already had a pump when createPump was called (dup), and the
\* event position createPump was called with (pos); the partitions the for loop
\* over partitionsToClaim has still to claim (todo; the rows listed are kept
\* while there is one).  While
\* processError runs, part is the partitionId of the context handed to it: none.
NoLoop == [pc |-> "none", snap |-> NoSnapshot, part |-> NoPartition,
           etag |-> NoEtag, ret |-> FALSE, err |-> "none", dup |-> FALSE,
           pos |-> NoPosition, todo |-> {}]
DoneLoop == [NoLoop EXCEPT !.pc = "done"]

\* A loop task whose promise is rejected.
RejectedLoop == [NoLoop EXCEPT !.pc = "rejected"]

\* A stop() call: the call it is suspended in (pc, "idle" when none is in
\* progress); the loop task it awaits; the rows it abandons; whether the
\* processor was not running when it was called (redundant); the partitions
\* whose row named the processor when it was called (owned); whether
\* removeAllPumps returned normally (closed); how the last call ended (result).
IdleStop == [pc |-> "idle", await |-> 0, rows |-> {}, redundant |-> FALSE,
             owned |-> {}, closed |-> FALSE, result |-> "none"]

Min(S) == CHOOSE x \in S : \A y \in S : x <= y

----
\* The checkpoint store.

\* listOwnership: every row that exists.
ListOwnership == [q \in Partitions |-> store[q]]

Listed(snap) == {q \in Partitions : snap[q].etag # NoEtag}

\* The etag precondition of one claim: a request without etag creates the row
\* if it is absent, a request with an etag must name the row's current etag.
ClaimAccepted(row, etag) ==
    IF row.etag = NoEtag THEN etag = NoEtag ELSE etag = Current

\* claimOwnership of the requests [part, etag] for owner o: the partitions it
\* accepts, and the store after it.
ClaimedParts(reqs) ==
    {rq.part : rq \in {x \in reqs : ClaimAccepted(store[x.part], x.etag)}}

StoreAfterClaim(reqs, o) ==
    [q \in Partitions |->
        IF q \in ClaimedParts(reqs)
        THEN [owner |-> o, etag |-> Current, stale |-> FALSE]
        ELSE store[q]]

\* A copy of a row, or the etag of a request, after the rows of the partitions
\* qs were replaced in the store.
OutdatedEtag(etag, q, qs) == IF q \in qs /\ etag = Current THEN Outdated ELSE etag

LoopsAfterClaim(qs) ==
    [p \in Procs |-> [r \in Runs |->
        [loops[p][r] EXCEPT
            !.snap = [q \in Partitions |->
                         [@[q] EXCEPT !.etag = OutdatedEtag(@, q, qs)]],
            !.etag = OutdatedEtag(@, loops[p][r].part, qs)]]]

StopsAfterClaim(qs) ==
    [p \in Procs |->
        [stop[p] EXCEPT
            !.rows = {[part |-> rw.part, etag |-> OutdatedEtag(rw.etag, rw.part, qs)] :
                         rw \in @}]]

----
\* The fair load balancer.

\* isAbandoned(ownership)
isAbandoned(row) == row.owner = Abandoned

\* The two maps the balanced loop builds from the listed rows.
AbandonedMap(snap) ==
    [q \in Partitions |->
        IF q \in Listed(snap) /\ isAbandoned(snap[q]) THEN snap[q] ELSE NoRow]
PartitionOwnershipMap(snap) ==
    [q \in Partitions |->
        IF q \in Listed(snap) /\ ~isAbandoned(snap[q]) THEN snap[q] ELSE NoRow]

\* now - lastModifiedTimeInMs > inactiveTimeLimitInMs
isStale(row) == row.stale

Active(map) == {q \in Listed(map) : ~isAbandoned(map[q]) /\ ~isStale(map[q])}
Claimable(map, ids) == ids \ Active(map)
Owners(self, map) == {map[q].owner : q \in Active(map)} \cup {self}
Owned(o, map) == {q \in Active(map) : map[q].owner = o}
Count(o, map) == Cardinality(Owned(o, map))
MinLoad(self, map, ids) == Cardinality(ids) \div Cardinality(Owners(self, map))
MostLoaded(self, map) ==
    {o \in Owners(self, map) \ {self} :
        \A o2 \in Owners(self, map) \ {self} : Count(o2, map) <= Count(o, map)}

\* loadBalance(ownerId, ownershipMap, partitionIds): the partitions to claim,
\* none or one.
loadBalance(self, map, ids) ==
    IF /\ Count(self, map) < MinLoad(self, map, ids)
       /\ \E o \in Owners(self, map) \ {self} : Count(o, map) > MinLoad(self, map, ids)
    THEN {Min(UNION {Owned(o, map) : o \in MostLoaded(self, map)})}
    ELSE IF Claimable(map, ids) # {}
    THEN {Min(Claimable(map, ids))}
    ELSE {}

----
\* The Pump Manager.
isReceivingFromPartition(p, q) == q \in pumps[p]

----
\* EventProcessor: start() and the two loops.

targetWithoutOwnership(p) == target[p] # Balancer

\* A request that takes the etag of the first row of the map, whatever its
\* partition.
EtagOfFirstRow(map, q) ==
    IF Listed(map) # {} THEN map[Min(Listed(map))].etag ELSE NoEtag

\* _createPartitionOwnershipRequest: the etag of the request for partition q.
createPartitionOwnershipRequest(map, q) ==
    IF map[q].etag # NoEtag THEN map[q].etag ELSE NoEtag

\* A handler that passes every error on: _handleSubscriptionError without its
\* AbortError filter.
UnfilteredError(p, err) == hasHandler[p]

\* _handleSubscriptionError: whether the error is passed to processError.
ErrorReachesUser(p, err) == err # "AbortError" /\ hasHandler[p]

\* The loop in the delay of the finally block, after an iteration that caught err.
Sleeping(err) == [NoLoop EXCEPT !.pc = "delay", !.err = err]

\* The same, with the return of "if (abortSignal.aborted) return" pending.
Returning == [NoLoop EXCEPT !.pc = "delay", !.ret = TRUE]

\* A loop that an error ends: the while loop without its try/catch.
Rethrown(p, err) == DoneLoop

\* catch (err) { await this._handleSubscriptionError(err) } finally { delay }
Caught(p, err) ==
    IF ErrorReachesUser(p, err)
    THEN [NoLoop EXCEPT !.pc = "processError", !.err = err]
    ELSE Sleeping(err)

\* getStartPosition(partitionIdToClaim, startPositions)
getStartPosition(q, startPositions) ==
    IF startPositions.null
    THEN latestEventPosition
    ELSE IF \/ startPositions.position.offset # Undefined
            \/ startPositions.position.sequenceNumber # Undefined
            \/ startPositions.position.enqueuedOn # Undefined
    THEN startPositions.position
    ELSE IF startPositions.entries[q].null
    THEN latestEventPosition
    ELSE startPositions.entries[q].position

\* A resolution that looks at the option startPosition before the checkpoints.
OptionBeforeCheckpoint(q, chks, startPositions) ==
    IF startPositions.null /\ chks[q] # Undefined
    THEN [NoPosition EXCEPT !.offset = chks[q]]
    ELSE getStartPosition(q, startPositions)

\* _getStartingPosition, given the checkpoints listCheckpoints returned.
getStartingPosition(q, chks, startPositions) ==
    IF chks[q] # Undefined
    THEN [NoPosition EXCEPT !.offset = chks[q]]
    ELSE getStartPosition(q, startPositions)

\* _startPump up to its first await.
StartPump(p, q) ==
    IF isReceivingFromPartition(p, q)
    THEN Sleeping("none")
    ELSE [NoLoop EXCEPT !.pc = "listCheckpoints", !.part = q]

\* A loop that starts the pump of the lowest partition without claiming it.
PumpWithoutClaim(p) == StartPump(p, Min(Partitions))

\* One pass of the while loop of either variant up to its first await.
BeginIteration(p) ==
    IF targetWithoutOwnership(p)
    THEN StartPump(p, target[p])
    ELSE [NoLoop EXCEPT !.pc = "listOwnership"]

\* The loop of run r continues as the task loop.
LoopStep(p, r, loop) ==
    /\ loops' = [loops EXCEPT ![p][r] = loop]
    /\ startIgnored' = NoProc /\ restarted' = NoProc

Started == abortController["A"] + abortController["B"]

\* The processor p if no stop() call of it is in progress and one has ended.
AfterStop(p) ==
    IF stop[p].pc = "idle" /\ stop[p].result # "none" THEN p ELSE NoProc

\* A start() that does not test _isRunning.
Restart(p) ==
    /\ Started < MaxStarts
    /\ isRunning' = [isRunning EXCEPT ![p] = TRUE]
    /\ abortController' = [abortController EXCEPT ![p] = @ + 1]
    /\ loopTask' = [loopTask EXCEPT ![p] = abortController[p] + 1]
    /\ loops' = [loops EXCEPT ![p][abortController[p] + 1] = BeginIteration(p)]
    /\ startIgnored' = NoProc
    /\ restarted' = AfterStop(p)
    /\ UNCHANGED <<store, target, hasHandler, startPosition, checkpoints,
                   aborted, pumps, stop>>

\* A start() that creates an AbortController only if the processor has none:
\* the loop of a later start() runs with the signal of the run before.
StartWithSameController(p) ==
    IF abortController[p] = 0
    THEN Restart(p)
    ELSE /\ ~isRunning[p]
         /\ isRunning' = [isRunning EXCEPT ![p] = TRUE]
         /\ loops' = [loops EXCEPT ![p][abortController[p]] =
                         IF abortController[p] \in aborted[p]
                         THEN DoneLoop ELSE BeginIteration(p)]
         /\ startIgnored' = NoProc
         /\ restarted' = AfterStop(p)
         /\ UNCHANGED <<store, target, hasHandler, startPosition, checkpoints,
                        abortController, aborted, loopTask, pumps, stop>>

\* start()
StartCall(p) ==
    IF isRunning[p]
    THEN /\ startIgnored' = p
         /\ restarted' = NoProc
         /\ UNCHANGED <<store, target, hasHandler, startPosition, checkpoints,
                   isRunning, abortController,
                        aborted, loopTask, loops, pumps, stop>>
    ELSE /\ Started < MaxStarts
         /\ isRunning' = [isRunning EXCEPT ![p] = TRUE]
         /\ abortController' = [abortController EXCEPT ![p] = @ + 1]
         /\ loopTask' = [loopTask EXCEPT ![p] = abortController[p] + 1]
         /\ loops' = [loops EXCEPT ![p][abortController[p] + 1] = BeginIteration(p)]
         /\ startIgnored' = NoProc
         /\ restarted' = AfterStop(p)
         /\ UNCHANGED <<store, target, hasHandler, startPosition, checkpoints,
                   aborted, pumps, stop>>

\* _runLoopWithLoadBalancing: listOwnership returns (out = "ok") or rejects.
ListOwnershipReturns(p, r, out) ==
    /\ loops[p][r].pc = "listOwnership"
    /\ IF out = "ok"
       THEN LoopStep(p, r, [NoLoop EXCEPT !.pc = "getPartitionIds",
                                          !.snap = ListOwnership])
       ELSE LoopStep(p, r, Caught(p, out))
    /\ UNCHANGED <<store, target, hasHandler, startPosition, checkpoints,
                   isRunning, abortController, aborted,
                   loopTask, pumps, stop>>

\* A request built from partitionOwnershipMap only, without the abandoned rows.
EtagWithoutAbandoned(snap, q) ==
    createPartitionOwnershipRequest(PartitionOwnershipMap(snap), q)

\* The etag of the request the loop sends for the partition q.
RequestEtag(snap, q) ==
    IF q \in Listed(AbandonedMap(snap))
    THEN createPartitionOwnershipRequest(AbandonedMap(snap), q)
    ELSE createPartitionOwnershipRequest(PartitionOwnershipMap(snap), q)

\* A balancer that returns every claimable partition.
EveryClaimable(p, snap, ids) == Claimable(PartitionOwnershipMap(snap), ids)

\* partitionsToClaim = loadBalancer.loadBalance(this._id, partitionOwnershipMap,
\* partitionIds)
partitionsToClaim(p, snap, ids) == loadBalance(p, PartitionOwnershipMap(snap), ids)

\* The for loop over partitionsToClaim claims the next of the partitions todo,
\* with the etag of its row among the rows listed.
NextClaim(snap, todo) ==
    [NoLoop EXCEPT !.pc = "claimOwnership",
                   !.part = Min(todo),
                   !.etag = RequestEtag(snap, Min(todo)),
                   !.todo = todo \ {Min(todo)},
                   !.snap = IF todo = {Min(todo)} THEN NoSnapshot ELSE snap]

\* The loop task old continues as the task new.  Within the for loop with
\* partitions still to claim, a task new that has reached the finally block is
\* the return of _claimOwnership, and the next partition is claimed.
InForLoop(old, new) ==
    IF old.todo = {} THEN new
    ELSE IF new.pc = "delay" THEN NextClaim(old.snap, old.todo)
    ELSE [new EXCEPT !.todo = old.todo, !.snap = old.snap]

\* _runLoopWithLoadBalancing: getPartitionIds returns ids, or rejects.
GetPartitionIdsReturns(p, r, out, ids) ==
    /\ loops[p][r].pc = "getPartitionIds"
    /\ LET snap == loops[p][r].snap
           toClaim == partitionsToClaim(p, snap, ids)
       IN  IF out # "ok"
           THEN LoopStep(p, r, Caught(p, out))
           ELSE IF r \in aborted[p]
           THEN LoopStep(p, r, Returning)
           ELSE IF ids = {} \/ toClaim = {}
           THEN LoopStep(p, r, Sleeping("none"))
           ELSE LoopStep(p, r, NextClaim(snap, toClaim))
    /\ UNCHANGED <<store, target, hasHandler, startPosition, checkpoints,
                   isRunning, abortController, aborted,
                   loopTask, pumps, stop>>

\* A _claimOwnership that starts the pump whatever claimOwnership returned.
PumpRegardless(p, q, claimed) == StartPump(p, q)

\* _claimOwnership after claimOwnership returned the rows of the partitions
\* claimed: return if there is none, otherwise _startPump.
AfterClaim(p, q, claimed) ==
    IF claimed = {} THEN Sleeping("none") ELSE StartPump(p, q)

\* _claimOwnership: claimOwnership returns the rows it wrote, or rejects.
ClaimOwnershipReturns(p, r, out) ==
    /\ loops[p][r].pc = "claimOwnership"
    /\ LET q == loops[p][r].part
           req == {[part |-> q, etag |-> loops[p][r].etag]}
           claimed == IF out = "ok" THEN ClaimedParts(req) ELSE {}
       IN  /\ store' = IF out = "ok" THEN StoreAfterClaim(req, p) ELSE store
           /\ loops' = [LoopsAfterClaim(claimed) EXCEPT ![p][r] =
                           InForLoop(LoopsAfterClaim(claimed)[p][r],
                                     IF out # "ok" THEN Caught(p, out)
                                     ELSE AfterClaim(p, q, claimed))]
           /\ stop' = StopsAfterClaim(claimed)
    /\ startIgnored' = NoProc /\ restarted' = NoProc
    /\ UNCHANGED <<target, hasHandler, startPosition, checkpoints,
                   isRunning, abortController, aborted,
                   loopTask, pumps>>

\* _startPump: _getStartingPosition (listCheckpoints) returns and createPump is
\* called, or it rejects.
ListCheckpointsReturns(p, r, out) ==
    /\ loops[p][r].pc = "listCheckpoints"
    /\ IF out # "ok"
       THEN LoopStep(p, r, InForLoop(loops[p][r], Caught(p, out)))
       ELSE LoopStep(p, r, [loops[p][r] EXCEPT
                               !.pc = "createPump",
                               !.pos = getStartingPosition(loops[p][r].part,
                                                           checkpoints, startPosition),
                               !.dup = isReceivingFromPartition(p, loops[p][r].part)])
    /\ UNCHANGED <<store, target, hasHandler, startPosition, checkpoints,
                   isRunning, abortController, aborted,
                   loopTask, pumps, stop>>

\* _startPump: createPump returns; it rejects if the partition already has a pump.
CreatePumpReturns(p, r, out) ==
    /\ loops[p][r].pc = "createPump"
    /\ LET q == loops[p][r].part
       IN  IF out = "ok" /\ ~isReceivingFromPartition(p, q)
           THEN /\ pumps' = [pumps EXCEPT ![p] = @ \cup {q}]
                /\ LoopStep(p, r, InForLoop(loops[p][r], Sleeping("none")))
           ELSE /\ LoopStep(p, r, InForLoop(loops[p][r],
                                            Caught(p, IF out = "ok" THEN "Error" ELSE out)))
                /\ UNCHANGED pumps
    /\ UNCHANGED <<store, target, hasHandler, startPosition, checkpoints,
                   isRunning, abortController, aborted,
                   loopTask, stop>>

\* A processError handler whose exception is not caught: _handleSubscriptionError
\* without the try/catch around the call of processError.
HandlerUncaught(out, err) == IF out = "ok" THEN Sleeping(err) ELSE RejectedLoop

\* _handleSubscriptionError after processError: it returned, or it threw and the
\* exception is logged; the finally block of the loop follows.
HandlerCaught(out, err) ==
    IF out = "ok" THEN Sleeping(err) ELSE Sleeping("HandlerError")

\* _handleSubscriptionError: the user's processError returns (out = "ok") or throws.
ProcessErrorReturns(p, r, out) ==
    /\ loops[p][r].pc = "processError"
    /\ LoopStep(p, r, InForLoop(loops[p][r], HandlerCaught(out, loops[p][r].err)))
    /\ UNCHANGED <<store, target, hasHandler, startPosition, checkpoints,
                   isRunning, abortController, aborted,
                   loopTask, pumps, stop>>

\* A loop that does not test abortSignal.aborted in its while condition.
DelayIgnoringAbort(p, r) ==
    /\ loops[p][r].pc = "delay"
    /\ IF loops[p][r].ret
       THEN LoopStep(p, r, DoneLoop)
       ELSE LoopStep(p, r, BeginIteration(p))
    /\ UNCHANGED <<store, target, hasHandler, startPosition, checkpoints,
                   isRunning, abortController, aborted, loopTask, pumps, stop>>

\* delayWithoutThrow returns (the interval elapsed, or the signal was aborted);
\* a pending return ends the loop, otherwise the while condition is tested.
DelayReturns(p, r) ==
    /\ loops[p][r].pc = "delay"
    /\ IF loops[p][r].ret \/ r \in aborted[p]
       THEN LoopStep(p, r, DoneLoop)
       ELSE LoopStep(p, r, BeginIteration(p))
    /\ UNCHANGED <<store, target, hasHandler, startPosition, checkpoints,
                   isRunning, abortController, aborted,
                   loopTask, pumps, stop>>

----
\* EventProcessor: stop().

\* A stop() call that has ended: it returned, or it rejected with err.
Ended(err) == [IdleStop EXCEPT !.result = IF err = "none" THEN "ok" ELSE "rejected"]

\* A stop() that abandons the ownerships whatever the processing target.
AbandonAlways(p, closed) ==
    stop' = [stop EXCEPT ![p].pc = "listOwnership", ![p].await = 0,
                         ![p].closed = closed]

\* After the try/catch/finally of stop(): abandon the ownerships, or return.
AfterLoopTask(p, closed) ==
    IF targetWithoutOwnership(p)
    THEN stop' = [stop EXCEPT ![p] = Ended("none")]
    ELSE stop' = [stop EXCEPT ![p].pc = "listOwnership", ![p].await = 0,
                              ![p].closed = closed]

\* A stop() that leaves _isRunning as it is.
StopKeepsRunning(p) ==
    /\ stop[p].pc = "idle"
    /\ aborted' = [aborted EXCEPT ![p] =
                      IF abortController[p] # 0 THEN @ \cup {abortController[p]} ELSE @]
    /\ stop' = [stop EXCEPT ![p] =
                   [IdleStop EXCEPT !.pc = "removeAllPumps",
                                    !.redundant = ~isRunning[p],
                                    !.owned = {q \in Partitions : store[q].owner = p}]]
    /\ startIgnored' = NoProc /\ restarted' = NoProc
    /\ UNCHANGED <<store, target, hasHandler, startPosition, checkpoints,
                   isRunning, abortController, loopTask, loops, pumps>>

\* stop() up to its first await: abort, _isRunning = false, removeAllPumps.
StopCall(p) ==
    /\ stop[p].pc = "idle"
    /\ aborted' = [aborted EXCEPT ![p] =
                      IF abortController[p] # 0 THEN @ \cup {abortController[p]} ELSE @]
    /\ isRunning' = [isRunning EXCEPT ![p] = FALSE]
    /\ stop' = [stop EXCEPT ![p] =
                   [IdleStop EXCEPT !.pc = "removeAllPumps",
                                    !.redundant = ~isRunning[p],
                                    !.owned = {q \in Partitions : store[q].owner = p}]]
    /\ startIgnored' = NoProc /\ restarted' = NoProc
    /\ UNCHANGED <<store, target, hasHandler, startPosition, checkpoints,
                   abortController, loopTask, loops, pumps>>

\* removeAllPumps returns: every pump is closed and the loop task is awaited; or it
\* rejects, the pumps left still live, and the catch block skips the await.
RemoveAllPumpsReturns(p, out, left) ==
    /\ stop[p].pc = "removeAllPumps"
    /\ IF out = "ok"
       THEN /\ left = {}
            /\ pumps' = [pumps EXCEPT ![p] = {}]
            /\ IF loopTask[p] # 0
               THEN stop' = [stop EXCEPT ![p].pc = "loopTask", ![p].await = loopTask[p],
                                         ![p].closed = TRUE]
               ELSE AfterLoopTask(p, TRUE)
       ELSE /\ left \subseteq pumps[p]
            /\ pumps' = [pumps EXCEPT ![p] = left]
            /\ AfterLoopTask(p, FALSE)
    /\ startIgnored' = NoProc /\ restarted' = NoProc
    /\ UNCHANGED <<store, target, hasHandler, startPosition, checkpoints,
                   isRunning, abortController, aborted,
                   loopTask, loops>>

\* await this._loopTask completes: the awaited loop has ended.
LoopTaskCompletes(p) ==
    /\ stop[p].pc = "loopTask"
    /\ loops[p][stop[p].await].pc \in {"done", "rejected"}
    /\ AfterLoopTask(p, stop[p].closed)
    /\ startIgnored' = NoProc /\ restarted' = NoProc
    /\ UNCHANGED <<store, target, hasHandler, startPosition, checkpoints,
                   isRunning, abortController, aborted,
                   loopTask, loops, pumps>>

\* Every listed row, whoever owns it.
AllOwnerships(p, snap) ==
    {[part |-> q, etag |-> snap[q].etag] : q \in Listed(snap)}

\* abandonPartitionOwnerships: the rows of this processor among those listed, with
\* their etags.
OurOwnerships(p, snap) ==
    {[part |-> q, etag |-> snap[q].etag] : q \in {x \in Listed(snap) : snap[x].owner = p}}

\* abandonPartitionOwnerships: listOwnership returns, or rejects.
AbandonListReturns(p, out) ==
    /\ stop[p].pc = "listOwnership"
    /\ IF out = "ok"
       THEN stop' = [stop EXCEPT ![p].pc = "claimOwnership",
                                 ![p].rows = OurOwnerships(p, ListOwnership)]
       ELSE stop' = [stop EXCEPT ![p] = Ended(out)]
    /\ startIgnored' = NoProc /\ restarted' = NoProc
    /\ UNCHANGED <<store, target, hasHandler, startPosition, checkpoints,
                   isRunning, abortController, aborted,
                   loopTask, loops, pumps>>

\* abandonPartitionOwnerships: claimOwnership of the rows with ownerId "" returns,
\* or rejects.
AbandonClaimReturns(p, out) ==
    /\ stop[p].pc = "claimOwnership"
    /\ LET claimed == IF out = "ok" THEN ClaimedParts(stop[p].rows) ELSE {}
       IN  /\ store' = IF out = "ok" THEN StoreAfterClaim(stop[p].rows, Abandoned)
                       ELSE store
           /\ loops' = LoopsAfterClaim(claimed)
           /\ stop' = [StopsAfterClaim(claimed) EXCEPT
                          ![p] = Ended(IF out = "ok" THEN "none" ELSE out)]
    /\ startIgnored' = NoProc /\ restarted' = NoProc
    /\ UNCHANGED <<target, hasHandler, startPosition, checkpoints,
                   isRunning, abortController, aborted,
                   loopTask, pumps>>

----
\* The environment.

\* Time passes: the last modification of a row is now further in the past than
\* the inactive time limit.
Expire(q) ==
    /\ store[q].etag # NoEtag
    /\ ~store[q].stale
    /\ store' = [store EXCEPT ![q].stale = TRUE]
    /\ startIgnored' = NoProc /\ restarted' = NoProc
    /\ UNCHANGED <<target, hasHandler, startPosition, checkpoints,
                   isRunning, abortController, aborted,
                   loopTask, loops, pumps, stop>>

\* A pump meets a terminal error and closes itself (reason PumpError).
PumpError(p, q) ==
    /\ q \in pumps[p]
    /\ pumps' = [pumps EXCEPT ![p] = @ \ {q}]
    /\ startIgnored' = NoProc /\ restarted' = NoProc
    /\ UNCHANGED <<store, target, hasHandler, startPosition, checkpoints,
                   isRunning, abortController, aborted,
                   loopTask, loops, stop>>

\* How a call made by the loop of run r may end: a call rejects with an AbortError
\* only once the signal of its run is aborted.
LoopOutcomes(p, r) ==
    IF r \in aborted[p] THEN {"ok", "Error", "AbortError"} ELSE {"ok", "Error"}

\* How the user's processError may end.
HandlerOutcomes == {"ok", "Error"}

\* How a call made by stop() may end.
StopOutcomes == {"ok", "Error"}

----
\* A store without rows, and a store with the rows that earlier processors of
\* the consumer group left: one with the owner id A, one with the owner id B.
EmptyStore == [q \in Partitions |-> NoRow]
LeftStore == [q \in Partitions |->
                [owner |-> IF q = 1 THEN "A" ELSE "B", etag |-> Current, stale |-> FALSE]]

\* One processor: every call may fail, the user starts and stops the processor
\* at any time, the event hub has the one partition 1 or none.
Configs ==
    {[target |-> [p \in Procs |-> Balancer], hasHandler |-> [p \in Procs |-> TRUE],
      store |-> EmptyStore],
     [target |-> [p \in Procs |-> Balancer], hasHandler |-> [p \in Procs |-> FALSE],
      store |-> EmptyStore],
     [target |-> [p \in Procs |-> 1], hasHandler |-> [p \in Procs |-> TRUE],
      store |-> EmptyStore],
     [target |-> [p \in Procs |-> 1], hasHandler |-> [p \in Procs |-> TRUE],
      store |-> LeftStore]}

Constructed ==
    /\ isRunning = [p \in Procs |-> FALSE]
    /\ abortController = [p \in Procs |-> 0]
    /\ aborted = [p \in Procs |-> {}]
    /\ loopTask = [p \in Procs |-> 0]
    /\ loops = [p \in Procs |-> [r \in Runs |-> NoLoop]]
    /\ pumps = [p \in Procs |-> {}]
    /\ stop = [p \in Procs |-> IdleStop]
    /\ startIgnored = NoProc
    /\ restarted = NoProc

Init ==
    /\ \E c \in Configs : target = c.target /\ hasHandler = c.hasHandler /\ store = c.store
    /\ startPosition = NullStart
    /\ checkpoints = NoCheckpoints
    /\ Constructed

Next ==
    \/ \E p \in {"A"} : StartCall(p)
    \/ \E p \in {"A"} : StopCall(p)
    \/ \E p \in {"A"}, out \in StopOutcomes, left \in SUBSET Partitions :
          RemoveAllPumpsReturns(p, out, left)
    \/ \E p \in {"A"} : LoopTaskCompletes(p)
    \/ \E p \in {"A"}, out \in StopOutcomes : AbandonListReturns(p, out)
    \/ \E p \in {"A"}, out \in StopOutcomes : AbandonClaimReturns(p, out)
    \/ \E p \in {"A"}, r \in Runs : \E out \in LoopOutcomes(p, r) :
          ListOwnershipReturns(p, r, out)
    \/ \E p \in {"A"}, r \in Runs : \E out \in LoopOutcomes(p, r), ids \in {{1}, {}} :
          GetPartitionIdsReturns(p, r, out, ids)
    \/ \E p \in {"A"}, r \in Runs : \E out \in LoopOutcomes(p, r) :
          ClaimOwnershipReturns(p, r, out)
    \/ \E p \in {"A"}, r \in Runs : \E out \in LoopOutcomes(p, r) :
          ListCheckpointsReturns(p, r, out)
    \/ \E p \in {"A"}, r \in Runs : \E out \in LoopOutcomes(p, r) :
          CreatePumpReturns(p, r, out)
    \/ \E p \in {"A"}, r \in Runs, out \in HandlerOutcomes : ProcessErrorReturns(p, r, out)
    \/ \E p \in {"A"}, r \in Runs : DelayReturns(p, r)
    \/ \E p \in {"A"}, q \in Partitions : PumpError(p, q)
    \/ \E q \in Partitions : Expire(q)

Spec == Init /\ [][Next]_vars

----
\* A fleet of two processors with the fair balancer on an event hub with the
\* partitions 1 and 2: no call fails and no processor is stopped.
FleetInit ==
    /\ target = [p \in Procs |-> Balancer]
    /\ hasHandler = [p \in Procs |-> TRUE]
    /\ startPosition = NullStart
    /\ checkpoints = NoCheckpoints
    /\ store = EmptyStore
    /\ Constructed

FleetNext ==
    \/ \E p \in Procs : StartCall(p)
    \/ \E p \in Procs, r \in Runs : ListOwnershipReturns(p, r, "ok")
    \/ \E p \in Procs, r \in Runs : GetPartitionIdsReturns(p, r, "ok", Partitions)
    \/ \E p \in Procs, r \in Runs : ClaimOwnershipReturns(p, r, "ok")
    \/ \E p \in Procs, r \in Runs : ListCheckpointsReturns(p, r, "ok")
    \/ \E p \in Procs, r \in Runs : CreatePumpReturns(p, r, "ok")
    \/ \E p \in Procs, r \in Runs : DelayReturns(p, r)
    \/ \E q \in Partitions : Expire(q)

FleetSpec == FleetInit /\ [][FleetNext]_vars

----
\* The starting position of the pumps: one processor, on a fixed partition or with
\* the balancer, for every option startPosition and every set of checkpoints of
\* these sets; no call fails.
Offsets == {"7", "42"}
Positions ==
    {pos \in [offset : {Undefined, "42"}, sequenceNumber : {Undefined, "5"},
              enqueuedOn : {Undefined, "noon"}] : pos # NoPosition}
MapEntries == {Null, Value([NoPosition EXCEPT !.offset = "42"]),
               Value([NoPosition EXCEPT !.sequenceNumber = "5"])}
SinglePositions == {Single(pos) : pos \in Positions}
PartitionMaps == {PerPartition(map) : map \in [Partitions -> MapEntries]}
StartPositions == {NullStart} \cup SinglePositions \cup PartitionMaps

PositionInit ==
    /\ \E t \in Partitions \cup {Balancer} : target = [p \in Procs |-> t]
    /\ hasHandler = [p \in Procs |-> TRUE]
    /\ startPosition \in StartPositions
    /\ checkpoints \in [Partitions -> Offsets \cup {Undefined}]
    /\ store = EmptyStore
    /\ Constructed

PositionNext ==
    \/ StartCall("A")
    \/ \E r \in Runs : ListOwnershipReturns("A", r, "ok")
    \/ \E r \in Runs : GetPartitionIdsReturns("A", r, "ok", Partitions)
    \/ \E r \in Runs : ClaimOwnershipReturns("A", r, "ok")
    \/ \E r \in Runs : ListCheckpointsReturns("A", r, "ok")
    \/ \E r \in Runs : CreatePumpReturns("A", r, "ok")
    \/ \E r \in Runs : DelayReturns("A", r)

PositionSpec == PositionInit /\ [][PositionNext]_vars

----
\* Recovery from a dead owner: the processor A crashed while it owned partitions,
\* its rows are left in the store and nothing refreshes them; the processor B
\* runs with the balancer and no call fails.  The calls B is suspended in return
\* and the delay of its loop elapses (weak fairness); time passes as it likes.
CrashedStore(owned) ==
    [q \in Partitions |->
        IF q \in owned THEN [owner |-> "A", etag |-> Current, stale |-> FALSE]
        ELSE NoRow]

RecoveryInit ==
    /\ target = [p \in Procs |-> Balancer]
    /\ hasHandler = [p \in Procs |-> TRUE]
    /\ startPosition = NullStart
    /\ checkpoints = NoCheckpoints
    /\ \E owned \in SUBSET Partitions : owned # {} /\ store = CrashedStore(owned)
    /\ Constructed

\* The loop task r of the processor p takes its next step, the call it is
\* suspended in returning.
LoopRun(p, r) ==
    \/ ListOwnershipReturns(p, r, "ok")
    \/ GetPartitionIdsReturns(p, r, "ok", Partitions)
    \/ ClaimOwnershipReturns(p, r, "ok")
    \/ ListCheckpointsReturns(p, r, "ok")
    \/ CreatePumpReturns(p, r, "ok")
    \/ DelayReturns(p, r)

LoopRuns(p) == \E r \in Runs : LoopRun(p, r)

RecoveryNext ==
    \/ StartCall("B")
    \/ LoopRuns("B")
    \/ \E q \in Partitions : Expire(q)

RecoverySpec == RecoveryInit /\ [][RecoveryNext]_vars /\ WF_vars(LoopRuns("B"))

----
\* Graceful stop in a fleet: two processors with the balancer, the processor A
\* may be stopped; no call fails, and no row reaches the inactive time limit.
TakeoverNext ==
    \/ \E p \in Procs : StartCall(p)
    \/ \E p \in Procs : LoopRuns(p)
    \/ StopCall("A")
    \/ RemoveAllPumpsReturns("A", "ok", {})
    \/ LoopTaskCompletes("A")
    \/ AbandonListReturns("A", "ok")
    \/ AbandonClaimReturns("A", "ok")

TakeoverSpec == FleetInit /\ [][TakeoverNext]_vars

----
\* Pumps that fail: the processor A runs alone with the balancer, no call fails,
\* a live pump may meet a terminal error and close itself.  The calls A is
\* suspended in return and the delay of its loop elapses, and a row that is not
\* written reaches the inactive time limit (weak fairness).
PumpFailureNext ==
    \/ StartCall("A")
    \/ LoopRuns("A")
    \/ \E q \in Partitions : Expire(q)
    \/ \E q \in Partitions : PumpError("A", q)

PumpFailureSpec ==
    /\ FleetInit
    /\ [][PumpFailureNext]_vars
    /\ WF_vars(LoopRuns("A"))
    /\ \A q \in Partitions : WF_vars(Expire(q))

----
\* Shutdown: one processor, on the fixed partition 1 or with the balancer, is
\* started and stopped at any time; no call fails.  Every call a loop or a
\* stop() call is suspended in returns, and the delay of every loop task
\* elapses (weak fairness of each task).
StopRuns(p) ==
    \/ RemoveAllPumpsReturns(p, "ok", {})
    \/ LoopTaskCompletes(p)
    \/ AbandonListReturns(p, "ok")
    \/ AbandonClaimReturns(p, "ok")

\* A step of the loop task r, the processError handler included: it returns
\* or throws.
LoopTaskRuns(p, r) ==
    \/ LoopRun(p, r)
    \/ \E out \in HandlerOutcomes : ProcessErrorReturns(p, r, out)

ShutdownNext ==
    \/ StartCall("A")
    \/ StopCall("A")
    \/ \E r \in Runs : LoopTaskRuns("A", r)
    \/ StopRuns("A")

ShutdownSpec ==
    /\ Init
    /\ [][ShutdownNext]_vars
    /\ \A r \in Runs : WF_vars(LoopTaskRuns("A", r))
    /\ WF_vars(StopRuns("A"))

----
\* The claims.

\* A stop() call of the processor p ends in this step.
StopCompletes(p) == stop[p].pc # "idle" /\ stop'[p].pc = "idle"

\* The loops of the processor p that have started and not ended.
ActiveLoops(p) == {r \in Runs : loops[p][r].pc \notin {"none", "done", "rejected"}}

\* C1: when a stop() call of a processor in balanced mode returns, the processor
\* not started again since the call, no row that named the processor as owner
\* when stop() was called still names it.
C1_GracefulAbandonment ==
    [][\A p \in Procs :
          (/\ StopCompletes(p)
           /\ stop'[p].result = "ok"
           /\ ~targetWithoutOwnership(p)
           /\ ~isRunning'[p])
          => \A q \in stop[p].owned : store'[q].owner # p]_vars

\* C2: createPump is never called for a partition for which
\* isReceivingFromPartition is true.
C2_NoPumpCreatedTwice ==
    \A p \in Procs, r \in Runs : loops[p][r].pc = "createPump" => ~loops[p][r].dup

\* C3: no two processors both have a live pump for the same partition.
C3_OneConsumerPerPartition ==
    \A p1 \in Procs, p2 \in Procs : p1 # p2 => pumps[p1] \cap pumps[p2] = {}

\* The rows of the store that name the processor p as owner.
OwnedRows(p) == {q \in Partitions : store[q].owner = p}

\* Every processor runs, every partition has a running owner, and the numbers of
\* partitions of two owners differ by at most 1.
Balanced ==
    /\ \A p \in Procs : isRunning[p]
    /\ \A q \in Partitions : store[q].owner \in Procs
    /\ \A p1 \in Procs, p2 \in Procs :
          Cardinality(OwnedRows(p1)) - Cardinality(OwnedRows(p2)) <= 1

\* C4: a fleet of running processors that has reached a distribution where the
\* partition counts of any two owners differ by at most 1 stays in such a
\* distribution.
C4_StaysBalanced == [][Balanced => Balanced']_vars

\* C5: a start() call on a running processor starts no loop and replaces neither
\* the abort controller nor the loop task; after start(); start() exactly one
\* loop is active.
C5_StartIdempotent ==
    [][\A p \in Procs :
          (isRunning[p] /\ StartCall(p))
          => /\ UNCHANGED <<abortController, aborted, loopTask, loops, isRunning>>
             /\ (abortController[p] = 1 /\ aborted[p] = {}
                    => Cardinality(ActiveLoops(p)') = 1)]_vars

\* A start() call was ignored: the processor runs, its one loop is active.
C5_StartIgnored ==
    /\ startIgnored = "A"
    /\ isRunning["A"]
    /\ abortController["A"] = 1
    /\ ActiveLoops("A") = {1}

\* C6: a stop() call on a processor that is not running (stopped before, or never
\* started) returns without rejecting.
C6_RedundantStopReturns ==
    [][\A p \in Procs :
          (StopCompletes(p) /\ stop[p].redundant) => stop'[p].result = "ok"]_vars

\* C7: no stop() call rejects.
C7_StopNeverRejects == \A p \in Procs : stop[p].result # "rejected"

\* C8: when a stop() call whose removeAllPumps closed every pump ends, the
\* processor not started again since the call, the processor has no live pump.
C8_PumpsReleased ==
    [][\A p \in Procs :
          (StopCompletes(p) /\ stop[p].closed /\ ~isRunning'[p])
          => pumps'[p] = {}]_vars

\* C9: processError is never called with an AbortError, in either loop variant.
C9_CancellationPurity ==
    \A p \in Procs, r \in Runs :
        loops[p][r].pc = "processError" => loops[p][r].err # "AbortError"

\* A loop of a processor with a handler caught an AbortError and sleeps.
C9_AbortErrorCaught ==
    \E p \in Procs, r \in Runs :
        /\ hasHandler[p]
        /\ loops[p][r].pc = "delay"
        /\ loops[p][r].err = "AbortError"

\* A call of the balanced loop of run r rejects with the error err in this step.
CallFails(p, r, err) ==
    \/ ListOwnershipReturns(p, r, err)
    \/ \E ids \in {{1}, {}} : GetPartitionIdsReturns(p, r, err, ids)
    \/ ClaimOwnershipReturns(p, r, err)
    \/ ListCheckpointsReturns(p, r, err)
    \/ CreatePumpReturns(p, r, err)
    \/ /\ CreatePumpReturns(p, r, "ok")
       /\ isReceivingFromPartition(p, loops[p][r].part)

\* C10: in the balanced loop, a call that fails with an error other than an
\* AbortError does not end the loop: the error is handed to processError with no
\* partition id, then the loop sleeps and, unless its run is aborted, begins a
\* further iteration.
C10_CoordinationErrorsNotFatal ==
    [][\A p \in Procs, r \in Runs :
          (~targetWithoutOwnership(p) /\ hasHandler[p])
          => /\ CallFails(p, r, "Error")
                => loops'[p][r] = [NoLoop EXCEPT !.pc = "processError", !.err = "Error"]
             /\ ProcessErrorReturns(p, r, "ok")
                => loops'[p][r] = Sleeping(loops[p][r].err)
             /\ ProcessErrorReturns(p, r, "Error")
                => loops'[p][r].pc = "delay"
             /\ (DelayReturns(p, r) /\ r \notin aborted[p])
                => loops'[p][r].pc = "listOwnership"
             /\ (loops[p][r].pc # "done" /\ loops'[p][r].pc = "done")
                => r \in aborted[p]]_vars

\* A balanced loop whose run is not aborted sleeps after processError was handed
\* the error of a failed call.
C10_ErrorHandled ==
    \E p \in Procs, r \in Runs :
        /\ ~targetWithoutOwnership(p)
        /\ hasHandler[p]
        /\ r \notin aborted[p]
        /\ loops[p][r].pc = "delay"
        /\ loops[p][r].err = "Error"

\* C11: the loop task of either variant is never rejected, whatever call fails
\* and also when the user's processError throws; it ends only when the signal of
\* its run is aborted.
C11_LoopNeverRethrows ==
    [][\A p \in Procs, r \in Runs :
          /\ loops'[p][r].pc # "rejected"
          /\ (loops[p][r].pc # "done" /\ loops'[p][r].pc = "done") => r \in aborted[p]]_vars

\* The user's processError threw and the loop sleeps in its finally block.
C11_HandlerThrew ==
    \E p \in Procs, r \in Runs :
        loops[p][r].pc = "delay" /\ loops[p][r].err = "HandlerError"

\* The position the pump of the partition q is to start from.
ResolvedPosition(q) ==
    IF checkpoints[q] # Undefined THEN [NoPosition EXCEPT !.offset = checkpoints[q]]
    ELSE IF startPosition \in SinglePositions THEN startPosition.position
    ELSE IF startPosition \in PartitionMaps /\ startPosition.entries[q] # Null
    THEN startPosition.entries[q].position
    ELSE latestEventPosition

\* C12: the position createPump is called with is the offset of the checkpoint of
\* the partition if the store holds one; otherwise the user's single position if
\* one was given; otherwise the entry of the partition in the user's map if it
\* has one; otherwise "latest".
C12_StartingPosition ==
    \A p \in Procs, r \in Runs :
        loops[p][r].pc = "createPump"
        => loops[p][r].pos = ResolvedPosition(loops[p][r].part)

\* createPump is called with the entry of the user's map for a partition without
\* checkpoint, while the other partition has a checkpoint.
C12_MapEntryUsed ==
    \E p \in Procs, r \in Runs :
        /\ loops[p][r].pc = "createPump"
        /\ checkpoints[loops[p][r].part] = Undefined
        /\ \E q \in Partitions : checkpoints[q] # Undefined
        /\ startPosition \in PartitionMaps
        /\ startPosition.entries[loops[p][r].part] # Null
        /\ loops[p][r].pos = startPosition.entries[loops[p][r].part].position

\* The loops of two processors are both suspended in a claimOwnership for the
\* same partition, with requests made from the same row: the row as it is in the
\* store (the same etag), or no row (no etag).
ClaimRace(p1, r1, p2, r2) ==
    /\ p1 # p2
    /\ loops[p1][r1].pc = "claimOwnership"
    /\ loops[p2][r2].pc = "claimOwnership"
    /\ loops[p1][r1].part = loops[p2][r2].part
    /\ loops[p1][r1].etag = loops[p2][r2].etag
    /\ ClaimAccepted(store[loops[p1][r1].part], loops[p1][r1].etag)

\* C13: of two claims of the same partition made from the same observed row, the
\* store accepts the one that arrives first and then refuses the other; a
\* processor whose claimOwnership returns no row starts no pump, reports no
\* error and leaves the store as it is.
C13_ClaimRace ==
    [][\A p \in Procs, r \in Runs :
          ClaimOwnershipReturns(p, r, "ok")
          => /\ \A p2 \in Procs, r2 \in Runs :
                   ClaimRace(p, r, p2, r2)
                   => /\ store'[loops[p][r].part].owner = p
                      /\ loops'[p][r].pc \in {"listCheckpoints", "delay"}
                      /\ loops'[p2][r2].pc = "claimOwnership"
                      /\ ~ClaimAccepted(store'[loops[p][r].part], loops'[p2][r2].etag)
             /\ ~ClaimAccepted(store[loops[p][r].part], loops[p][r].etag)
                   => /\ loops'[p][r] = Sleeping("none")
                      /\ UNCHANGED <<store, pumps>>]_vars

\* B lost the race for partition 1: A owns the row, and B, which never had a
\* pump, sleeps after an iteration although no processor ever claimed
\* partition 2 (an iteration of B that lost no race would have claimed it).
C13_RaceLost ==
    \E r \in Runs :
        /\ loops["B"][r].pc = "delay"
        /\ loops["B"][r].err = "none"
        /\ pumps["B"] = {}
        /\ store[1].owner = "A"
        /\ store[2] = NoRow

\* The loop of run r issues a claimOwnership call in this step.
ClaimIssued(p, r) ==
    /\ loops'[p][r].pc = "claimOwnership"
    /\ \/ loops[p][r].pc # "claimOwnership"
       \/ \E out \in {"ok", "Error", "AbortError"} : ClaimOwnershipReturns(p, r, out)

C15_SerialIterations ==
    \A p \in Procs : Cardinality(ActiveLoops(p)) <= 1

\* C16: a start() call on a processor whose stop() call has ended sets isRunning
\* and gives the processor a new abort controller, not aborted, and a new loop
\* task that begins an iteration; and the loop of an abort controller that is
\* not aborted does not end.
C16_CleanRestart ==
    [][\A p \in Procs :
          /\ (StartCall(p) /\ ~isRunning[p] /\ AfterStop(p) = p)
                => /\ isRunning'[p]
                   /\ abortController'[p] # abortController[p]
                   /\ abortController'[p] \notin aborted'[p]
                   /\ loopTask'[p] = abortController'[p]
                   /\ loops'[p][loopTask'[p]] = BeginIteration(p)
          /\ (abortController'[p] # 0 /\ abortController'[p] \notin aborted'[p])
                => abortController'[p] \in ActiveLoops(p)']_vars

\* A was started again after its stop() call had ended: the loop of the first
\* run has ended, the second run is not aborted and its loop is in an iteration.
C16_Restarted ==
    /\ restarted = "A"
    /\ isRunning["A"]
    /\ abortController["A"] = 2
    /\ aborted["A"] = {1}
    /\ loops["A"][1].pc = "done"
    /\ loops["A"][2].pc \in {"listOwnership", "listCheckpoints"}

\* C17: a processor whose processing target is a partition id is never suspended
\* in a listOwnership or claimOwnership call, in its loops or in stop(); its steps
\* leave the rows of the store as they are (they change only as time passes);
\* it calls listCheckpoints and createPump for its partition only and has no
\* pump for another partition.
C17_NoOwnershipInteraction ==
    [][\A p \in Procs :
          targetWithoutOwnership(p)
          => /\ stop'[p].pc \notin {"listOwnership", "claimOwnership"}
             /\ \A r \in Runs :
                   /\ loops'[p][r].pc \notin {"listOwnership", "getPartitionIds",
                                              "claimOwnership"}
                   /\ loops'[p][r].pc \in {"listCheckpoints", "createPump"}
                         => loops'[p][r].part = target[p]
             /\ pumps'[p] \subseteq {target[p]}
             /\ store' # store => \E q \in Partitions : Expire(q)]_vars

\* A processor on the fixed partition 1 was started and stopped, its loop has
\* ended and stop() has returned, and the row that names it is as it was.
C17_StoppedWithoutAbandoning ==
    /\ targetWithoutOwnership("A")
    /\ loops["A"][1].pc = "done"
    /\ stop["A"].pc = "idle"
    /\ stop["A"].result = "ok"
    /\ store[1] = LeftStore[1]

\* C18: a processor A that runs alone with the balancer, no call failing, owns
\* the rows of all P partitions after at most P iterations.  An iteration adds
\* at most one row, so this requires that every iteration of A that finds
\* fewer than P rows of its own claims a partition whose row does not name A.
C18_EveryIterationGains ==
    [][\A r \in Runs :
          (/\ abortController["B"] = 0
           /\ GetPartitionIdsReturns("A", r, "ok", Partitions)
           /\ OwnedRows("A") # Partitions)
          => /\ loops'["A"][r].pc = "claimOwnership"
             /\ loops'["A"][r].part \notin OwnedRows("A")]_vars

\* C19: once the rows that the crashed processor A left are older than the
\* inactive time limit and B runs, B eventually owns the rows of all these
\* partitions and has a pump for each of them.
C19_DeadOwnerRecovery ==
    (/\ isRunning["B"]
     /\ \A q \in Partitions : store[q].owner = "A" /\ isStale(store[q]))
    ~> (\A q \in Partitions : store[q].owner = "B" /\ q \in pumps["B"])

\* The rows with ownerId "" among the rows listed.
AbandonedRows(snap) == {q \in Listed(snap) : isAbandoned(snap[q])}

\* C20: an abandoned row is not in the ownership map given to the balancer, so
\* its partition is claimable whatever the age of the row; a claim of the
\* partition carries the etag of the abandoned row; and the store accepts the
\* claim if the row was not written since it was listed.
C20_PeerTakeover ==
    [][\A p \in Procs, r \in Runs :
          /\ GetPartitionIdsReturns(p, r, "ok", Partitions)
                => \A q \in AbandonedRows(loops[p][r].snap) :
                      /\ q \notin Listed(PartitionOwnershipMap(loops[p][r].snap))
                      /\ q \in Claimable(PartitionOwnershipMap(loops[p][r].snap),
                                          Partitions)
                      /\ (loops'[p][r].pc = "claimOwnership" /\ loops'[p][r].part = q)
                            => /\ loops'[p][r].etag = loops[p][r].snap[q].etag
                               /\ loops'[p][r].etag # NoEtag
          /\ (/\ ClaimOwnershipReturns(p, r, "ok")
              /\ isAbandoned(store[loops[p][r].part])
              /\ loops[p][r].etag = Current)
                => /\ store'[loops[p][r].part].owner = p
                   /\ loops'[p][r].pc \in {"listCheckpoints", "delay"}]_vars

\* The stop() call of A has returned, and B has sent a claim with the etag of a
\* row that is abandoned, not older than the inactive time limit, and not
\* written since B listed it.
C20_AbandonedRowClaimed ==
    \E r \in Runs :
        /\ stop["A"].pc = "idle"
        /\ stop["A"].result = "ok"
        /\ loops["B"][r].pc = "claimOwnership"
        /\ loops["B"][r].etag = Current
        /\ isAbandoned(store[loops["B"][r].part])
        /\ ~isStale(store[loops["B"][r].part])

\* C21: once the distribution is balanced and every processor runs, no loop
\* issues a claimOwnership call: a loop that listed the rows with the owners they
\* have in the balanced distribution claims nothing when getPartitionIds returns.
C21_SteadyStateQuiet ==
    [][\A p \in Procs, r \in Runs :
          (/\ Balanced
           /\ \A q \in Partitions : loops[p][r].snap[q].owner = store[q].owner
           /\ GetPartitionIdsReturns(p, r, "ok", Partitions))
          => loops'[p][r].pc # "claimOwnership"]_vars

\* C22: a partition whose row names the running processor A and that has no
\* pump (its pump closed itself with a PumpError) eventually has a pump of A
\* again.
C22_PumpErrorRecovery ==
    \A q \in Partitions :
        (isRunning["A"] /\ store[q].owner = "A" /\ q \notin pumps["A"])
        ~> (q \in pumps["A"])

\* C23: isRunning is false after construction (no abort controller exists yet);
\* it becomes true in a step only if the step is a start() call, and every
\* start() call leaves it true; it becomes false in a step only if the step is
\* a stop() call, and every stop() call leaves it false; and whenever it is
\* true, the processor has an abort controller that is not aborted and a loop
\* task.
C23_IsRunningTracksLifecycle ==
    [][\A p \in Procs :
          /\ abortController[p] = 0 /\ loopTask[p] = 0 /\ stop[p] = IdleStop
                => ~isRunning[p]
          /\ (~isRunning[p] /\ isRunning'[p]) => StartCall(p)
          /\ StartCall(p) => isRunning'[p]
          /\ (isRunning[p] /\ ~isRunning'[p]) => StopCall(p)
          /\ StopCall(p) => ~isRunning'[p]
          /\ isRunning'[p]
                => /\ abortController'[p] # 0
                   /\ abortController'[p] \notin aborted'[p]
                   /\ loopTask'[p] = abortController'[p]]_vars

\* A runs for the second time: the abort controller of its first run is
\* aborted, the one it has is not, and its loop task is the loop of this run.
C23_RunningAgain ==
    /\ isRunning["A"]
    /\ aborted["A"] = {1}
    /\ abortController["A"] = 2
    /\ loopTask["A"] = 2
    /\ loops["A"][2].pc = "delay"

\* The rows with an owner among the rows listed.
LiveRows(snap) == {q \in Listed(snap) : ~isAbandoned(snap[q])}

\* C24: the request for a partition the balancer returned carries the etag of
\* the abandoned row of that partition if it has one, else the etag of its live
\* row if it has one, else no etag; and the row an accepted request writes is
\* the row of that partition, with the id of the processor as ownerId.
C24_RequestEtag ==
    [][\A p \in Procs, r \in Runs :
          /\ (GetPartitionIdsReturns(p, r, "ok", Partitions)
                 /\ loops'[p][r].pc = "claimOwnership")
                => /\ loops'[p][r].part
                         \in partitionsToClaim(p, loops[p][r].snap, Partitions)
                   /\ loops'[p][r].etag =
                         IF loops'[p][r].part \in AbandonedRows(loops[p][r].snap)
                         THEN loops[p][r].snap[loops'[p][r].part].etag
                         ELSE IF loops'[p][r].part \in LiveRows(loops[p][r].snap)
                         THEN loops[p][r].snap[loops'[p][r].part].etag
                         ELSE NoEtag
          /\ ClaimOwnershipReturns(p, r, "ok")
                => \A q \in Partitions :
                      store'[q] # store[q]
                      => q = loops[p][r].part /\ store'[q].owner = p]_vars

\* B has sent a claim of a partition whose row names A, which owns every
\* partition, with the etag of that row.
C24_LiveRowEtagSent ==
    \E r \in Runs, q \in Partitions :
        /\ loops["B"][r].pc = "claimOwnership"
        /\ loops["B"][r].part = q
        /\ loops["B"][r].etag = Current
        /\ \A q2 \in Partitions : store[q2].owner = "A" /\ store[q2].etag = Current

\* C25: a balanced loop whose run is aborted before getPartitionIds has returned
\* issues no claimOwnership call: when getPartitionIds returns it goes to the
\* finally block with the return pending (or, the call having failed, to the
\* error handling), and after the delay it ends without a further iteration.
C25_NoClaimAfterCancellation ==
    [][\A p \in Procs, r \in Runs :
          r \in aborted[p]
          => /\ \A ids \in {{1}, {}} :
                   GetPartitionIdsReturns(p, r, "ok", ids) => loops'[p][r] = Returning
             /\ loops[p][r].pc \in {"listOwnership", "getPartitionIds", "processError",
                                     "delay"}
                   => loops'[p][r].pc # "claimOwnership"
             /\ loops[p][r].pc = "delay" => loops'[p][r].pc \in {"delay", "done"}
             /\ loops[p][r].pc # "listOwnership" => loops'[p][r].pc # "listOwnership"]_vars

\* getPartitionIds returned to a balanced loop whose run was aborted: the loop
\* is in its finally block with the return pending.
C25_ReturnPending ==
    \E p \in Procs, r \in Runs :
        r \in aborted[p] /\ loops[p][r] = Returning

\* C26: the listOwnership of the abandonment is issued only after the background
\* loop has ended: while a stop() call of a processor that was started once is
\* suspended in it, the loop of the processor is not active.
C26_AbandonAfterLoop ==
    \A p \in Procs :
        (stop[p].pc = "listOwnership" /\ abortController[p] <= 1)
        => ActiveLoops(p) = {}

\* C27: a stop() call on a running processor eventually ends, every call
\* returning.
C27_StopTerminates ==
    (stop["A"].pc # "idle" /\ ~stop["A"].redundant) ~> (stop["A"].pc = "idle")


\* C28: a processor writes only its own identity.  A step that changes the
\* ownerId of a row is the claimOwnership of a balance loop of the processor
\* the row then names, or the claimOwnership of a stop() of the processor the
\* row named, which leaves it abandoned; the rows a stop() submits are rows
\* its listOwnership returned with its own ownerId; and the claimOwnership of
\* a stop() leaves every row owned by another processor as it is.
C28_OwnIdentityOnly ==
    [][/\ \A q \in Partitions :
            store'[q].owner # store[q].owner =>
                \/ \E p \in Procs, r \in Runs :
                       /\ loops[p][r].pc = "claimOwnership"
                       /\ loops[p][r].part = q
                       /\ store'[q].owner = p
                \/ \E p \in Procs :
                       /\ stop[p].pc = "claimOwnership"
                       /\ q \in {rw.part : rw \in stop[p].rows}
                       /\ store[q].owner = p
                       /\ store'[q].owner = Abandoned
       /\ \A p \in Procs :
            (stop[p].pc = "listOwnership" /\ stop'[p].pc = "claimOwnership") =>
                \A rw \in stop'[p].rows : store[rw.part].owner = p
       /\ \A p \in Procs :
            (stop[p].pc = "claimOwnership" /\ stop'[p].pc = "idle") =>
                \A q \in Partitions :
                    store[q].owner \notin {p, Abandoned} => store'[q] = store[q]
      ]_vars

\* The stop() of A has returned after an abandonment that listed a row of A
\* and a row of B: B still owns one partition and the other is abandoned.
C28_PeerRowKept ==
    /\ stop["A"].result = "ok"
    /\ \E q \in Partitions :
          /\ store[q].owner = "B"
          /\ \E x \in Partitions \ {q} : store[x].owner = Abandoned

\* C29: with the balancer a pump is created only after a successful claim.  A
\* loop calls _startPump for the partition q (it is suspended in listCheckpoints)
\* only in the step in which its claimOwnership call for q returns a row; it
\* calls createPump for q only from that _startPump; and a pump of q appears
\* only when that createPump returns.
C29_PumpOnlyAfterClaim ==
    [][\A p \in Procs : target[p] = Balancer =>
          /\ \A r \in Runs :
                /\ (loops'[p][r].pc = "listCheckpoints" /\ loops[p][r].pc # "listCheckpoints")
                      => /\ loops[p][r].pc = "claimOwnership"
                         /\ loops'[p][r].part = loops[p][r].part
                         /\ ClaimedParts({[part |-> loops[p][r].part,
                                           etag |-> loops[p][r].etag]}) # {}
                         /\ store'[loops[p][r].part].owner = p
                /\ (loops'[p][r].pc = "createPump" /\ loops[p][r].pc # "createPump")
                      => /\ loops[p][r].pc = "listCheckpoints"
                         /\ loops'[p][r].part = loops[p][r].part
          /\ \A q \in pumps'[p] \ pumps[p] :
                \E r \in Runs : loops[p][r].pc = "createPump" /\ loops[p][r].part = q
      ]_vars

\* The balanced loop of A is suspended in createPump for a partition whose row
\* names A, while B owns the other partition.
C29_CreatePumpAfterClaim ==
    /\ target["A"] = Balancer
    /\ \E q \in Partitions :
          /\ loops["A"][1].pc = "createPump"
          /\ loops["A"][1].part = q
          /\ store[q].owner = "A"
          /\ \E x \in Partitions \ {q} : store[x].owner = "B"

\* The balanced loop task r of a processor with a processError handler is in
\* _startPump after its claim, and in this step listCheckpoints or createPump
\* raises an error that is not a cancellation.
PumpStartFails(p, r) ==
    /\ target[p] = Balancer
    /\ hasHandler[p]
    /\ \/ /\ loops[p][r].pc = "listCheckpoints"
          /\ loops'[p][r].pc \notin {"listCheckpoints", "createPump"}
       \/ /\ loops[p][r].pc = "createPump"
          /\ loops'[p][r].pc # "createPump"
          /\ loops[p][r].part \notin pumps'[p] \ pumps[p]
    /\ loops'[p][r].err # "AbortError"

\* C30: when the pump start fails after a successful claim, the error is
\* handed to processError, the partition has no pump, the step changes no row
\* of the store (the claim is not rolled back), and when processError has returned
\* or thrown the iteration is in its sleep.
C30_FailedPumpStart ==
    [][\A p \in Procs, r \in Runs :
          /\ PumpStartFails(p, r) =>
                /\ loops'[p][r].pc = "processError"
                /\ loops'[p][r].err = "Error"
                /\ loops[p][r].part \notin pumps'[p]
                /\ store' = store
          /\ (/\ target[p] = Balancer
              /\ loops[p][r].pc = "processError"
              /\ loops'[p][r].pc # "processError") => loops'[p][r].pc = "delay"
      ]_vars
====
